---- MODULE Spec2Model ----
(***************************************************************************)
(* Model of transcript.py: the module-level script (model load, UI launch) *)
(* and the request handler `transcribe`, which the UI host may run for     *)
(* several requests at once.  The calls into the whisper and gradio        *)
(* libraries are modelled by their outcomes: a call either completes and   *)
(* yields a value built from its arguments, or raises an Exception.        *)
(* A Python str is modelled as a sequence of tokens; an f-string is the    *)
(* concatenation of its literal part and the formatted value.              *)
(***************************************************************************)
EXTENDS Integers, Sequences, FiniteSets, TLC

\* ---------------------------------------------------------------- bounds
MaxReq == 2      \* invocations of transcribe the UI host runs concurrently
NumPaths == 2    \* distinct audio file paths delivered by the microphone widget
NumLangs == 2    \* at most this many language codes in a probability mapping
MaxProb == 2     \* probabilities are 0..MaxProb (in units of 1/MaxProb)

Requests == 1..MaxReq
PathNames == <<"a.wav", "b.wav", "c.wav", "d.wav">>
Paths == {PathNames[i] : i \in 1..NumPaths}
LangCodes == <<"en", "hi", "de", "fr">>
None == "None"
NoLang == "<unbound>"
Unbound == [unbound |-> TRUE]

\* str(e) of the exceptions the library calls raise
ExcMsgs == {<<>>, <<"failed">>}

WHISPER_MODEL_SIZE == "tiny"

\* the probability mappings model.detect_language can hand back: a dict in
\* insertion order, as a sequence of <<code, probability>> pairs
ProbMaps ==
  UNION {{[i \in 1..n |-> <<LangCodes[i], f[i]>>] : f \in [1..n -> 0..MaxProb]}
           : n \in 0..NumLangs}

\* the mappings used where several invocations interleave: the empty one and
\* the two that put all the probability on one of the first two codes
SampleMaps ==
  {<<>>,
   <<<<LangCodes[1], MaxProb>>, <<LangCodes[2], 0>>>>,
   <<<<LangCodes[1], 0>>, <<LangCodes[2], MaxProb>>>>}

\* ------------------------------------------------------------- operators
\* max(probs, key=probs.get): the first key, in iteration order, whose value
\* no later key exceeds strictly
RECURSIVE MaxLoop(_, _, _)
MaxLoop(probs, i, best) ==
  IF i > Len(probs) THEN best
  ELSE IF probs[i][2] > probs[best][2] THEN MaxLoop(probs, i + 1, i)
       ELSE MaxLoop(probs, i + 1, best)

PyMaxLastKey(probs) == probs[Len(probs)][1]

PyMax(probs) == probs[MaxLoop(probs, 2, 1)][1]

\* probs[detected_language]
Lookup(probs, code) ==
  probs[CHOOSE i \in 1..Len(probs) : probs[i][1] = code][2]

LoadModel(size, device, n) == [size |-> size, device |-> device, id |-> n]

LoadAudio(path) == [file |-> path, padded |-> FALSE]

PadOrTrim(a) == [a EXCEPT !.padded = TRUE]

LogMelSpectrogram(a, device) == [audio |-> a, device |-> device]

DecodingOptions(fp16, language) == [fp16 |-> fp16, language |-> language]

\* result.text of whisper.decode(model, mel, options)
DecodeText(m, spec, opts) ==
  <<"transcript", spec.audio.file, opts.language, m.size>>

NoAudioMsg == <<"Please provide audio input.">>
AudioErrPrefix == <<"Error processing audio file: ">>
DecodeErrPrefix == <<"Error during decoding: ">>

Pipeline == <<"load_audio", "pad_or_trim", "log_mel_spectrogram",
              "detect_language", "decode">>

NoOutcome == [kind |-> "none", value |-> <<>>]
Returned(s) == [kind |-> "returned", value |-> s]
Raised(e) == [kind |-> "raised", value |-> e]

\* --------------------------------------------------------------- state
VARIABLES
  main,              \* position of the module-level script
  model,             \* the module-level name `model`
  loadCalls,         \* number of whisper.load_model calls made
  log,               \* lines printed by the module-level script
  pc,                \* per invocation: position inside transcribe
  audio_filepath,    \* per invocation: the argument
  audio, mel, probs, detected_language, options,   \* per invocation: locals
  printed,           \* per invocation: the line printed at line 57
  decode_args,       \* per invocation: arguments of the whisper.decode call
  steps,             \* per invocation: library steps called so far
  failed,            \* per invocation: the step that raised, or ""
  outcome            \* per invocation: value returned / exception raised

locals == <<audio, mel, probs, detected_language, options, printed, decode_args>>
startup == <<main, model, loadCalls, log>>
vars == <<main, model, loadCalls, log, pc, audio_filepath, audio, mel, probs,
          detected_language, options, printed, decode_args, steps, failed,
          outcome>>

Init ==
  /\ main = "load"
  /\ model = Unbound
  /\ loadCalls = 0
  /\ log = <<"Loading Whisper model">>
  /\ pc = [r \in Requests |-> "idle"]
  /\ audio_filepath = [r \in Requests |-> None]
  /\ audio = [r \in Requests |-> Unbound]
  /\ mel = [r \in Requests |-> Unbound]
  /\ probs = [r \in Requests |-> <<>>]
  /\ detected_language = [r \in Requests |-> NoLang]
  /\ options = [r \in Requests |-> Unbound]
  /\ printed = [r \in Requests |-> <<>>]
  /\ decode_args = [r \in Requests |-> Unbound]
  /\ steps = [r \in Requests |-> <<>>]
  /\ failed = [r \in Requests |-> ""]
  /\ outcome = [r \in Requests |-> NoOutcome]

requestVars == <<pc, audio_filepath, audio, mel, probs, detected_language,
                 options, printed, decode_args, steps, failed, outcome>>

\* ------------------------------------------------- module-level script
LoadModelOk ==
  /\ main = "load"
  /\ loadCalls' = loadCalls + 1
  /\ model' = LoadModel(WHISPER_MODEL_SIZE, "cpu", loadCalls + 1)
  /\ log' = log \o <<"loaded successfully">>
  /\ main' = "launch"
  /\ UNCHANGED requestVars

LoadModelFailNoExit ==
  /\ main = "load"
  /\ loadCalls' = loadCalls + 1
  /\ log' = log \o <<"Error loading Whisper model", "Please ensure">>
  /\ main' = "launch"
  /\ UNCHANGED <<model, requestVars>>

LoadModelFailRetry ==
  /\ main = "load"
  /\ loadCalls' = loadCalls + 1
  /\ log' = log \o <<"Error loading Whisper model", "Please ensure">>
  /\ main' = "load"
  /\ UNCHANGED <<model, requestVars>>

\* load_model raises: two lines are printed and exit() ends the process
LoadModelFail ==
  /\ main = "load"
  /\ loadCalls' = loadCalls + 1
  /\ log' = log \o <<"Error loading Whisper model", "Please ensure">>
  /\ main' = "exited"
  /\ UNCHANGED <<model, requestVars>>

\* print("Launching ..."); gr.Interface(...).launch() starts serving and
\* blocks the script
LaunchOk ==
  /\ main = "launch"
  /\ log' = log \o <<"Launching Gradio Web UI">>
  /\ main' = "serving"
  /\ UNCHANGED <<model, loadCalls, requestVars>>

LaunchFail ==
  /\ main = "launch"
  /\ log' = log \o <<"Launching Gradio Web UI",
                     "Error launching Gradio interface", "Please ensure">>
  /\ main' = "finished"
  /\ UNCHANGED <<model, loadCalls, requestVars>>

\* ------------------------------------------------------------ transcribe
\* leaving transcribe (by return or by an exception) discards the locals of
\* the invocation; the line it printed stays on stdout
DropFrame(r) ==
  /\ audio' = [audio EXCEPT ![r] = Unbound]
  /\ mel' = [mel EXCEPT ![r] = Unbound]
  /\ probs' = [probs EXCEPT ![r] = <<>>]
  /\ detected_language' = [detected_language EXCEPT ![r] = NoLang]
  /\ options' = [options EXCEPT ![r] = Unbound]

\* the UI host calls transcribe(audio_filepath) with the widget's value
Call(r, path) ==
  /\ main = "serving"
  /\ pc[r] = "idle"
  /\ pc' = [pc EXCEPT ![r] = "entry"]
  /\ audio_filepath' = [audio_filepath EXCEPT ![r] = path]
  /\ UNCHANGED <<startup, locals, steps, failed, outcome>>

ReturnNoAudioFallThrough(r) ==
  /\ pc[r] = "entry"
  /\ audio_filepath[r] = None
  /\ steps' = [steps EXCEPT ![r] = Append(@, "load_audio")]
  /\ audio' = [audio EXCEPT ![r] = LoadAudio(audio_filepath[r])]
  /\ pc' = [pc EXCEPT ![r] = "pad_or_trim"]
  /\ UNCHANGED <<startup, audio_filepath, mel, probs, detected_language,
                 options, printed, decode_args, failed, outcome>>

\* if audio_filepath is None: return "Please provide audio input."
ReturnNoAudio(r) ==
  /\ pc[r] = "entry"
  /\ audio_filepath[r] = None
  /\ outcome' = [outcome EXCEPT ![r] = Returned(NoAudioMsg)]
  /\ pc' = [pc EXCEPT ![r] = "done"]
  /\ UNCHANGED <<startup, audio_filepath, locals, steps, failed>>

LoadAudioOkReload(r) ==
  /\ pc[r] = "entry"
  /\ audio_filepath[r] # None
  /\ loadCalls' = loadCalls + 1
  /\ model' = LoadModel(WHISPER_MODEL_SIZE, "cpu", loadCalls + 1)
  /\ steps' = [steps EXCEPT ![r] = Append(@, "load_audio")]
  /\ audio' = [audio EXCEPT ![r] = LoadAudio(audio_filepath[r])]
  /\ pc' = [pc EXCEPT ![r] = "pad_or_trim"]
  /\ UNCHANGED <<main, log, audio_filepath, mel, probs, detected_language,
                 options, printed, decode_args, failed, outcome>>

\* audio = whisper.load_audio(audio_filepath)
LoadAudioOk(r) ==
  /\ pc[r] = "entry"
  /\ audio_filepath[r] # None
  /\ steps' = [steps EXCEPT ![r] = Append(@, "load_audio")]
  /\ audio' = [audio EXCEPT ![r] = LoadAudio(audio_filepath[r])]
  /\ pc' = [pc EXCEPT ![r] = "pad_or_trim"]
  /\ UNCHANGED <<startup, audio_filepath, mel, probs, detected_language,
                 options, printed, decode_args, failed, outcome>>

LoadAudioFailFallThrough(r, e) ==
  /\ pc[r] = "entry"
  /\ audio_filepath[r] # None
  /\ steps' = [steps EXCEPT ![r] = Append(@, "load_audio")]
  /\ failed' = [failed EXCEPT ![r] = "load_audio"]
  /\ pc' = [pc EXCEPT ![r] = "log_mel_spectrogram"]
  /\ UNCHANGED <<startup, audio_filepath, locals, outcome>>

\* load_audio raises: except Exception returns the error string
LoadAudioFail(r, e) ==
  /\ pc[r] = "entry"
  /\ audio_filepath[r] # None
  /\ steps' = [steps EXCEPT ![r] = Append(@, "load_audio")]
  /\ failed' = [failed EXCEPT ![r] = "load_audio"]
  /\ outcome' = [outcome EXCEPT ![r] = Returned(AudioErrPrefix \o e)]
  /\ pc' = [pc EXCEPT ![r] = "done"]
  /\ UNCHANGED <<startup, audio_filepath, locals>>

\* audio = whisper.pad_or_trim(audio)
PadOrTrimOk(r) ==
  /\ pc[r] = "pad_or_trim"
  /\ steps' = [steps EXCEPT ![r] = Append(@, "pad_or_trim")]
  /\ audio' = [audio EXCEPT ![r] = PadOrTrim(audio[r])]
  /\ pc' = [pc EXCEPT ![r] = "log_mel_spectrogram"]
  /\ UNCHANGED <<startup, audio_filepath, mel, probs, detected_language,
                 options, printed, decode_args, failed, outcome>>

PadOrTrimFail(r, e) ==
  /\ pc[r] = "pad_or_trim"
  /\ steps' = [steps EXCEPT ![r] = Append(@, "pad_or_trim")]
  /\ failed' = [failed EXCEPT ![r] = "pad_or_trim"]
  /\ outcome' = [outcome EXCEPT ![r] = Returned(AudioErrPrefix \o e)]
  /\ pc' = [pc EXCEPT ![r] = "done"]
  /\ DropFrame(r)
  /\ UNCHANGED <<startup, audio_filepath, printed, decode_args>>

LogMelOkShared(r) ==
  /\ pc[r] = "log_mel_spectrogram"
  /\ steps' = [steps EXCEPT ![r] = Append(@, "log_mel_spectrogram")]
  /\ \E q \in Requests :
       /\ audio[q] # Unbound
       /\ mel' = [mel EXCEPT ![r] = LogMelSpectrogram(audio[q], model.device)]
  /\ pc' = [pc EXCEPT ![r] = "detect_language"]
  /\ UNCHANGED <<startup, audio_filepath, audio, probs, detected_language,
                 options, printed, decode_args, failed, outcome>>

\* mel = whisper.log_mel_spectrogram(audio).to(model.device)
LogMelOk(r) ==
  /\ pc[r] = "log_mel_spectrogram"
  /\ steps' = [steps EXCEPT ![r] = Append(@, "log_mel_spectrogram")]
  /\ mel' = [mel EXCEPT ![r] = LogMelSpectrogram(audio[r], model.device)]
  /\ pc' = [pc EXCEPT ![r] = "detect_language"]
  /\ UNCHANGED <<startup, audio_filepath, audio, probs, detected_language,
                 options, printed, decode_args, failed, outcome>>

\* the spectrogram call raises outside any try block: the exception leaves
\* transcribe
LogMelRaise(r, e) ==
  /\ pc[r] = "log_mel_spectrogram"
  /\ steps' = [steps EXCEPT ![r] = Append(@, "log_mel_spectrogram")]
  /\ failed' = [failed EXCEPT ![r] = "log_mel_spectrogram"]
  /\ outcome' = [outcome EXCEPT ![r] = Raised(e)]
  /\ pc' = [pc EXCEPT ![r] = "raised"]
  /\ DropFrame(r)
  /\ UNCHANGED <<startup, audio_filepath, printed, decode_args>>

\* _, probs = model.detect_language(mel)
DetectLanguageOk(r, p) ==
  /\ pc[r] = "detect_language"
  /\ steps' = [steps EXCEPT ![r] = Append(@, "detect_language")]
  /\ probs' = [probs EXCEPT ![r] = p]
  /\ pc' = [pc EXCEPT ![r] = "select"]
  /\ UNCHANGED <<startup, audio_filepath, audio, mel, detected_language,
                 options, printed, decode_args, failed, outcome>>

DetectLanguageRaise(r, e) ==
  /\ pc[r] = "detect_language"
  /\ steps' = [steps EXCEPT ![r] = Append(@, "detect_language")]
  /\ failed' = [failed EXCEPT ![r] = "detect_language"]
  /\ outcome' = [outcome EXCEPT ![r] = Raised(e)]
  /\ pc' = [pc EXCEPT ![r] = "raised"]
  /\ DropFrame(r)
  /\ UNCHANGED <<startup, audio_filepath, printed, decode_args>>

\* detected_language = max(probs, key=probs.get); print(...);
\* options = whisper.DecodingOptions(fp16=False, language=detected_language)
SelectLanguage(r) ==
  /\ pc[r] = "select"
  /\ probs[r] # <<>>
  /\ LET lang == PyMax(probs[r]) IN
       /\ detected_language' = [detected_language EXCEPT ![r] = lang]
       /\ printed' = [printed EXCEPT ![r] =
            <<"Detected language: ", lang, " with probability ",
              Lookup(probs[r], lang)>>]
       /\ options' = [options EXCEPT ![r] = DecodingOptions(FALSE, lang)]
  /\ pc' = [pc EXCEPT ![r] = "decode"]
  /\ UNCHANGED <<startup, audio_filepath, audio, mel, probs, decode_args,
                 steps, failed, outcome>>

\* max() of an empty mapping raises ValueError, outside any try block
SelectLanguageRaise(r) ==
  /\ pc[r] = "select"
  /\ probs[r] = <<>>
  /\ failed' = [failed EXCEPT ![r] = "max"]
  /\ outcome' = [outcome EXCEPT ![r] =
       Raised(<<"max() arg is an empty sequence">>)]
  /\ pc' = [pc EXCEPT ![r] = "raised"]
  /\ DropFrame(r)
  /\ UNCHANGED <<startup, audio_filepath, printed, decode_args, steps>>

\* result = whisper.decode(model, mel, options); return result.text
DecodeOk(r) ==
  /\ pc[r] = "decode"
  /\ steps' = [steps EXCEPT ![r] = Append(@, "decode")]
  /\ decode_args' = [decode_args EXCEPT ![r] =
       [model |-> model, mel |-> mel[r], options |-> options[r]]]
  /\ outcome' = [outcome EXCEPT ![r] =
       Returned(DecodeText(model, mel[r], options[r]))]
  /\ pc' = [pc EXCEPT ![r] = "done"]
  /\ DropFrame(r)
  /\ UNCHANGED <<startup, audio_filepath, printed, failed>>

DecodeFailUncaught(r, e) ==
  /\ pc[r] = "decode"
  /\ steps' = [steps EXCEPT ![r] = Append(@, "decode")]
  /\ decode_args' = [decode_args EXCEPT ![r] =
       [model |-> model, mel |-> mel[r], options |-> options[r]]]
  /\ failed' = [failed EXCEPT ![r] = "decode"]
  /\ outcome' = [outcome EXCEPT ![r] = Raised(e)]
  /\ pc' = [pc EXCEPT ![r] = "raised"]
  /\ DropFrame(r)
  /\ UNCHANGED <<startup, audio_filepath, printed>>

DecodeFailRetry(r, e) ==
  /\ pc[r] = "decode"
  /\ steps' = [steps EXCEPT ![r] = Append(@, "decode")]
  /\ decode_args' = [decode_args EXCEPT ![r] =
       [model |-> model, mel |-> mel[r], options |-> options[r]]]
  /\ pc' = [pc EXCEPT ![r] = "decode"]
  /\ UNCHANGED <<startup, audio_filepath, audio, mel, probs,
                 detected_language, options, printed, failed, outcome>>

\* decode raises: except Exception returns the error string
DecodeFail(r, e) ==
  /\ pc[r] = "decode"
  /\ steps' = [steps EXCEPT ![r] = Append(@, "decode")]
  /\ decode_args' = [decode_args EXCEPT ![r] =
       [model |-> model, mel |-> mel[r], options |-> options[r]]]
  /\ failed' = [failed EXCEPT ![r] = "decode"]
  /\ outcome' = [outcome EXCEPT ![r] = Returned(DecodeErrPrefix \o e)]
  /\ pc' = [pc EXCEPT ![r] = "done"]
  /\ DropFrame(r)
  /\ UNCHANGED <<startup, audio_filepath, printed>>

\* the UI host takes the returned string (or the exception) and the slot is
\* free for the next call
Finish(r) ==
  /\ pc[r] \in {"done", "raised"}
  /\ pc' = [pc EXCEPT ![r] = "idle"]
  /\ audio_filepath' = [audio_filepath EXCEPT ![r] = None]
  /\ printed' = [printed EXCEPT ![r] = <<>>]
  /\ decode_args' = [decode_args EXCEPT ![r] = Unbound]
  /\ steps' = [steps EXCEPT ![r] = <<>>]
  /\ failed' = [failed EXCEPT ![r] = ""]
  /\ outcome' = [outcome EXCEPT ![r] = NoOutcome]
  /\ UNCHANGED <<startup, audio, mel, probs, detected_language, options>>

Next ==
  \/ LoadModelOk
  \/ LoadModelFail
  \/ LaunchOk
  \/ LaunchFail
  \/ \E r \in Requests, path \in Paths \cup {None} : Call(r, path)
  \/ \E r \in Requests : ReturnNoAudio(r)
  \/ \E r \in Requests : LoadAudioOk(r)
  \/ \E r \in Requests, e \in ExcMsgs : LoadAudioFail(r, e)
  \/ \E r \in Requests : PadOrTrimOk(r)
  \/ \E r \in Requests, e \in ExcMsgs : PadOrTrimFail(r, e)
  \/ \E r \in Requests : LogMelOk(r)
  \/ \E r \in Requests, e \in ExcMsgs : LogMelRaise(r, e)
  \/ \E r \in Requests, p \in SampleMaps : DetectLanguageOk(r, p)
  \/ \E r \in Requests, e \in ExcMsgs : DetectLanguageRaise(r, e)
  \/ \E r \in Requests : SelectLanguage(r)
  \/ \E r \in Requests : SelectLanguageRaise(r)
  \/ \E r \in Requests : DecodeOk(r)
  \/ \E r \in Requests, e \in ExcMsgs : DecodeFail(r, e)
  \/ \E r \in Requests : Finish(r)

\* the script serving concurrent invocations
Spec == Init /\ [][Next]_vars

\* the script serving one invocation at a time, with every probability
\* mapping within the bounds
NextSingle ==
  \/ LoadModelOk
  \/ LoadModelFail
  \/ LaunchOk
  \/ LaunchFail
  \/ \E path \in Paths \cup {None} : Call(1, path)
  \/ ReturnNoAudio(1)
  \/ LoadAudioOk(1)
  \/ \E e \in ExcMsgs : LoadAudioFail(1, e)
  \/ PadOrTrimOk(1)
  \/ \E e \in ExcMsgs : PadOrTrimFail(1, e)
  \/ LogMelOk(1)
  \/ \E e \in ExcMsgs : LogMelRaise(1, e)
  \/ \E p \in ProbMaps : DetectLanguageOk(1, p)
  \/ \E e \in ExcMsgs : DetectLanguageRaise(1, e)
  \/ SelectLanguage(1)
  \/ SelectLanguageRaise(1)
  \/ DecodeOk(1)
  \/ \E e \in ExcMsgs : DecodeFail(1, e)
  \/ Finish(1)

SpecSingle == Init /\ [][NextSingle]_vars

\* ------------------------------------------------------------ properties
Logged(line) == \E i \in 1..Len(log) : log[i] = line

IsPrefix(s, t) == Len(s) <= Len(t) /\ \A i \in 1..Len(s) : s[i] = t[i]

StartsWith(s, prefix) == IsPrefix(prefix, s)

Contains(s, tok) == \E i \in 1..Len(s) : s[i] = tok

\* code is a key of probs and no key of probs has a strictly higher value
IsArgMax(code, p) ==
  \E i \in 1..Len(p) :
    /\ p[i][1] = code
    /\ \A j \in 1..Len(p) : p[j][2] <= p[i][2]

InFlight(r) == pc[r] # "idle"

ModelLoadedBeforeServing ==
  (main = "serving" \/ \E r \in Requests : InFlight(r)) =>
    /\ model = LoadModel(WHISPER_MODEL_SIZE, "cpu", 1)
    /\ Logged("loaded successfully")
    /\ ~Logged("Error loading Whisper model")

ServingARequest ==
  /\ main = "serving"
  /\ \E r \in Requests : pc[r] = "detect_language"

\* C3: once the model load has failed, the failure is logged, the process
\* has exited, the UI was never launched, no invocation of transcribe
\* exists, and load_model was called exactly once (no retry, no fallback).
LoadFailureIsFatal ==
  Logged("Error loading Whisper model") =>
    /\ main = "exited"
    /\ model = Unbound
    /\ loadCalls = 1
    /\ ~Logged("Launching Gradio Web UI")
    /\ \A r \in Requests : ~InFlight(r) /\ outcome[r] = NoOutcome

LoadFailedAndExited ==
  /\ main = "exited"
  /\ Logged("Error loading Whisper model")

\* C4: an invocation with audio_filepath None returns exactly
\* "Please provide audio input." and runs no pipeline step.
NoAudioReturnsFixedMessage ==
  \A r \in Requests :
    (pc[r] \notin {"idle", "entry"} /\ audio_filepath[r] = None) =>
      /\ pc[r] = "done"
      /\ outcome[r] = Returned(NoAudioMsg)
      /\ steps[r] = <<>>
      /\ audio[r] = Unbound /\ mel[r] = Unbound
      /\ decode_args[r] = Unbound

NoAudioReturned ==
  \E r \in Requests :
    /\ pc[r] = "done"
    /\ audio_filepath[r] = None
    /\ outcome[r].kind = "returned"

\* C5: when load_audio or pad_or_trim raises, the invocation returns a
\* string beginning with "Error processing audio file", raises nothing, and
\* runs no later step.
AudioFailureReturnsError ==
  \A r \in Requests :
    failed[r] \in {"load_audio", "pad_or_trim"} =>
      /\ pc[r] = "done"
      /\ outcome[r].kind = "returned"
      /\ StartsWith(outcome[r].value, AudioErrPrefix)
      /\ steps[r][Len(steps[r])] = failed[r]
      /\ ~Contains(steps[r], "log_mel_spectrogram")
      /\ ~Contains(steps[r], "detect_language")
      /\ ~Contains(steps[r], "decode")
      /\ mel[r] = Unbound /\ decode_args[r] = Unbound

PadOrTrimFailed ==
  \E r \in Requests :
    /\ failed[r] = "pad_or_trim"
    /\ outcome[r].value = AudioErrPrefix \o <<"failed">>

\* C6: when decode raises, the invocation returns "Error during decoding: "
\* followed by the exception text and nothing of a transcription; this
\* string differs from the one an audio-preprocessing failure returns, and
\* each failure yields its own.
DecodeFailureReturnsError ==
  /\ AudioErrPrefix # DecodeErrPrefix
  /\ \A r \in Requests :
       /\ failed[r] = "decode" =>
            /\ pc[r] = "done"
            /\ \E e \in ExcMsgs : outcome[r] = Returned(DecodeErrPrefix \o e)
            /\ ~Contains(outcome[r].value, "transcript")
            /\ ~StartsWith(outcome[r].value, AudioErrPrefix)
       /\ (failed[r] \in {"load_audio", "pad_or_trim"} /\ pc[r] = "done") =>
            ~StartsWith(outcome[r].value, DecodeErrPrefix)

DecodeFailed ==
  \E r \in Requests :
    /\ failed[r] = "decode"
    /\ outcome[r].kind = "returned"

\* C7: for a non-empty probability mapping the language selected is a key
\* of maximal probability, and the decode call that follows receives exactly
\* the options fp16=False, language=that key.
LanguageHintIsArgMax ==
  /\ [](\A r \in Requests :
          (pc[r] = "decode" /\ probs[r] # <<>>) =>
            /\ IsArgMax(detected_language[r], probs[r])
            /\ options[r] = DecodingOptions(FALSE, detected_language[r]))
  /\ [][\A r \in Requests :
          (decode_args[r] = Unbound /\ decode_args'[r] # Unbound) =>
            /\ probs[r] # <<>>
            /\ IsArgMax(decode_args'[r].options.language, probs[r])
            /\ decode_args'[r].options.fp16 = FALSE
            /\ decode_args'[r].mel = mel[r]
            /\ decode_args'[r].model = model]_vars

DecodedWithLaterMaximum ==
  \E r \in Requests :
    /\ decode_args[r] # Unbound
    /\ decode_args[r].options.language = LangCodes[2]
    /\ printed[r][4] = 1

\* C8: load_model is called at most once, and once the model handle is
\* bound no step changes it; serving never goes back to an earlier phase.
ModelHandleOneWay ==
  /\ [](loadCalls <= 1)
  /\ [][/\ model # Unbound => model' = model
        /\ main = "serving" => main' = "serving"
        /\ loadCalls' >= loadCalls]_vars

ServedWithSameHandle ==
  /\ model = LoadModel(WHISPER_MODEL_SIZE, "cpu", 1)
  /\ \E r, q \in Requests :
       /\ pc[r] = "done" /\ failed[r] = "load_audio"
       /\ pc[q] = "done" /\ failed[q] = "" /\ Len(steps[q]) = 5

\* C9: the library steps of one invocation are a prefix of load_audio,
\* pad_or_trim, log_mel_spectrogram, detect_language, decode (so each runs
\* at most once, in that order); a step that raised is the last one run;
\* a transcription is returned only after all five ran without error.
PipelineOrder ==
  \A r \in Requests :
    /\ IsPrefix(steps[r], Pipeline)
    /\ Contains(Pipeline, failed[r]) =>
         /\ steps[r] # <<>>
         /\ steps[r][Len(steps[r])] = failed[r]
         /\ pc[r] \in {"done", "raised"}
    /\ failed[r] = "max" => steps[r] = SubSeq(Pipeline, 1, 4)
    /\ (outcome[r].kind = "returned" /\ Contains(outcome[r].value, "transcript"))
         => /\ steps[r] = Pipeline
            /\ failed[r] = ""
            /\ decode_args[r] # Unbound

TranscriptReturned ==
  \E r \in Requests :
    /\ pc[r] = "done"
    /\ Contains(outcome[r].value, "transcript")
    /\ steps[r] = Pipeline

\* what one invocation returns, from its own argument and its own steps
OwnResult(r) ==
  IF audio_filepath[r] = None THEN {NoAudioMsg}
  ELSE IF failed[r] \in {"load_audio", "pad_or_trim"}
    THEN {AudioErrPrefix \o e : e \in ExcMsgs}
  ELSE IF failed[r] = "decode"
    THEN {DecodeErrPrefix \o e : e \in ExcMsgs}
  ELSE {DecodeText(model,
          LogMelSpectrogram(PadOrTrim(LoadAudio(audio_filepath[r])), "cpu"),
          DecodingOptions(FALSE, printed[r][2]))}

\* C10: under any interleaving of invocations, the audio buffer, the
\* spectrogram, the detected language and the decode arguments of an
\* invocation come from its own argument and its own mapping, and the string
\* it returns is fixed by its own argument and its own step outcomes.
RequestDataIsOwn ==
  \A r \in Requests :
    /\ audio[r] # Unbound => audio[r].file = audio_filepath[r]
    /\ mel[r] # Unbound => mel[r].audio = audio[r]
    /\ detected_language[r] # NoLang =>
         /\ detected_language[r] = PyMax(probs[r])
         /\ printed[r][2] = detected_language[r]
         /\ options[r].language = detected_language[r]
    /\ decode_args[r] # Unbound =>
         /\ decode_args[r].mel.audio.file = audio_filepath[r]
         /\ decode_args[r].options.language = printed[r][2]
    /\ outcome[r].kind = "returned" => outcome[r].value \in OwnResult(r)

TwoInterleavedTranscripts ==
  \E r, q \in Requests :
    /\ r # q
    /\ pc[r] = "done" /\ Contains(outcome[r].value, "transcript")
    /\ pc[q] = "done" /\ Contains(outcome[q].value, "transcript")
    /\ audio_filepath[q] # audio_filepath[r]
    /\ decode_args[q].options.language # decode_args[r].options.language

====
